---- MODULE Spec2Model ----
(***************************************************************************)
(* Dark Web Monitoring Dashboard (src/Dark_web_monitoring_dashboard.py).   *)
(*                                                                         *)
(* The program is one Dash callback, update_dashboard, fired on page load  *)
(* and on every change of the upload component's contents or of the date   *)
(* picker's start_date / end_date.  It decodes the uploaded workbooks,     *)
(* normalises their column names, keeps the tables that have the six       *)
(* required columns, filters the rows by date and computes the outputs.    *)
(*                                                                         *)
(* Text is a sequence of one-character strings, so that strip(), lower()   *)
(* and the substring search are computed and not assumed.  A cell of a     *)
(* worksheet is a record [t, s, n, h]: t is the kind of value pandas reads *)
(* ("str" text, "nan" empty cell, "datetime" date cell, "nat" after        *)
(* conversion of an empty cell, "int" a numeric header), s the text, n the *)
(* day ordinal and h the time of day of a datetime (0 midnight, 1 noon).   *)
(***************************************************************************)
EXTENDS Integers, Sequences, FiniteSets, TLC

VARIABLES
    contents,    \* upload-data.contents: None, or the list of uploaded payloads
    start_date,  \* date-picker-range.start_date (day ordinal of 'YYYY-MM-DD')
    end_date,    \* date-picker-range.end_date
    outcome,     \* how the last invocation of update_dashboard ended
    steps,       \* per payload, the branch process_uploaded_files took and the
                 \* frame clean_column_names returned, in the last invocation
    data,        \* local `data` of the last invocation (the combined table)
    shown        \* the eight outputs the page currently shows

vars == <<contents, start_date, end_date, outcome, steps, data, shown>>

(***************************************************************************)
(* Bounds of the model.                                                    *)
(***************************************************************************)
MaxFiles == 2   \* payloads in one upload event
MaxRows == 2    \* rows in one worksheet
MaxDay == 3     \* day ordinals 1..MaxDay; "today" is MaxDay

Days == 1..MaxDay

\* a local variable: `value` is computed once and Use is applied to it
Local(value, Use(_)) == CHOOSE r \in {Use(x) : x \in {value}} : TRUE

(***************************************************************************)
(* Text.                                                                   *)
(***************************************************************************)
UpperCase == <<"A", "B", "C", "D", "E", "F", "G", "H", "I", "J", "K", "L", "M",
               "N", "O", "P", "Q", "R", "S", "T", "U", "V", "W", "X", "Y", "Z">>
LowerCase == <<"a", "b", "c", "d", "e", "f", "g", "h", "i", "j", "k", "l", "m",
               "n", "o", "p", "q", "r", "s", "t", "u", "v", "w", "x", "y", "z">>
Whitespace == {" ", "\t", "\n"}
Digits == <<"0", "1", "2", "3", "4", "5", "6", "7", "8", "9">>

\* the lower-case letter of every upper-case letter
LowerOf ==
    [c \in {UpperCase[i] : i \in 1..Len(UpperCase)} |->
        LowerCase[CHOOSE i \in 1..Len(UpperCase) : UpperCase[i] = c]]

\* str.lower() on one character
lower_char(c) == IF c \in DOMAIN LowerOf THEN LowerOf[c] ELSE c

\* str.lower()
str_lower(s) == [i \in 1..Len(s) |-> lower_char(s[i])]

RECURSIVE str_lstrip(_)
str_lstrip(s) ==
    IF s # <<>> /\ Head(s) \in Whitespace THEN str_lstrip(Tail(s)) ELSE s

RECURSIVE str_rstrip(_)
str_rstrip(s) ==
    IF s # <<>> /\ s[Len(s)] \in Whitespace
    THEN str_rstrip(SubSeq(s, 1, Len(s) - 1))
    ELSE s

\* str.strip(): leading and trailing whitespace removed
str_strip(s) == str_rstrip(str_lstrip(s))

\* format of a non-negative integer by an f-string: its decimal digits
RECURSIVE format_int(_)
format_int(n) ==
    IF n < 10 THEN <<Digits[n + 1]>>
    ELSE format_int(n \div 10) \o <<Digits[(n % 10) + 1]>>

(***************************************************************************)
(* Cells and tables.                                                       *)
(***************************************************************************)
StrCell(s) == [t |-> "str", s |-> s, n |-> 0, h |-> 0]
IntCell(n) == [t |-> "int", s |-> <<>>, n |-> n, h |-> 0]
NaN == [t |-> "nan", s |-> <<>>, n |-> 0, h |-> 0]
NaT == [t |-> "nat", s |-> <<>>, n |-> 0, h |-> 0]
Timestamp(d, h) == [t |-> "datetime", s |-> <<>>, n |-> d, h |-> h]

\* upload-data.contents: None until the first upload, then the list of files
None == [uploaded |-> FALSE, files |-> <<>>]
Uploaded(files) == [uploaded |-> TRUE, files |-> files]
NoFrame == [columns |-> <<>>, rows |-> <<>>]

(***************************************************************************)
(* REQUIRED_COLUMNS and clean_column_names.                                *)
(***************************************************************************)
REQUIRED_COLUMNS ==
    << <<"K", "e", "y", "w", "o", "r", "d">>,
       <<"U", "R", "L">>,
       <<"F", "i", "n", "d", "i", "n", "g", "s">>,
       <<"L", "i", "n", "k", " ", "R", "e", "s", "p", "o", "n", "s", "e">>,
       <<"T", "i", "m", "e">>,
       <<"D", "a", "t", "e">> >>

KeywordCol == 1
URLCol == 2
FindingsCol == 3
DateCol == 6

\* as column_mapping, had the table an entry 'url': 'URL' as well
column_mapping_with_url ==
    { << <<"k", "e", "y", "w", "o", "r", "d">>, REQUIRED_COLUMNS[1] >>,
      << <<"l", "i", "n", "k">>, REQUIRED_COLUMNS[2] >>,
      << <<"u", "r", "l">>, REQUIRED_COLUMNS[2] >>,
      << <<"f", "i", "n", "d", "i", "n", "g", "s">>, REQUIRED_COLUMNS[3] >>,
      << <<"l", "i", "n", "k", " ", "r", "e", "s", "p", "o", "n", "s", "e">>,
         REQUIRED_COLUMNS[4] >>,
      << <<"t", "i", "m", "e">>, REQUIRED_COLUMNS[5] >>,
      << <<"d", "a", "t", "e">>, REQUIRED_COLUMNS[6] >> }

\* the rename table of clean_column_names: <<old name, new name>>
column_mapping ==
    { << <<"k", "e", "y", "w", "o", "r", "d">>, REQUIRED_COLUMNS[1] >>,
      << <<"l", "i", "n", "k">>, REQUIRED_COLUMNS[2] >>,
      << <<"f", "i", "n", "d", "i", "n", "g", "s">>, REQUIRED_COLUMNS[3] >>,
      << <<"l", "i", "n", "k", " ", "r", "e", "s", "p", "o", "n", "s", "e">>,
         REQUIRED_COLUMNS[4] >>,
      << <<"t", "i", "m", "e">>, REQUIRED_COLUMNS[5] >>,
      << <<"d", "a", "t", "e">>, REQUIRED_COLUMNS[6] >> }

\* df.rename(columns=mapping) on one column name
rename(mapping, name) ==
    IF \E p \in mapping : p[1] = name
    THEN (CHOOSE p \in mapping : p[1] = name)[2]
    ELSE name

\* as fold_column, had line 24 lowercased the name without stripping it
fold_column_unstripped(col) == str_lower(col)

\* col.strip().lower() of line 24
fold_column(col) == str_lower(str_strip(col))

\* clean_column_names(df): col.strip() raises AttributeError on a column name
\* that is not text (a numeric header cell); otherwise every name is folded
\* and renamed, and the rows are left as they are.
clean_column_names(df) ==
    IF \E j \in 1..Len(df.columns) : df.columns[j].t # "str"
    THEN [exc |-> "AttributeError", df |-> NoFrame]
    ELSE [exc |-> "none",
          df |-> [columns |-> [j \in 1..Len(df.columns) |->
                                 StrCell(rename(column_mapping,
                                                fold_column(df.columns[j].s)))],
                  rows |-> df.rows]]

(***************************************************************************)
(* process_uploaded_files.                                                 *)
(***************************************************************************)
\* all(col in df.columns for col in REQUIRED_COLUMNS)
has_required_columns(df) ==
    \A k \in 1..Len(REQUIRED_COLUMNS) :
        \E j \in 1..Len(df.columns) : df.columns[j].s = REQUIRED_COLUMNS[k]

column_index(df, name) ==
    CHOOSE j \in 1..Len(df.columns) : df.columns[j].s = name

\* df[REQUIRED_COLUMNS]: the six columns, in the order of REQUIRED_COLUMNS
select_required(df) ==
    [columns |-> [k \in 1..Len(REQUIRED_COLUMNS) |-> StrCell(REQUIRED_COLUMNS[k])],
     rows |-> [i \in 1..Len(df.rows) |->
                 [k \in 1..Len(REQUIRED_COLUMNS) |->
                     df.rows[i][column_index(df, REQUIRED_COLUMNS[k])]]]]

\* the body of the try block for one decoded payload: read_excel, then
\* clean_column_names, then the required-columns test
load_frame(book) ==
    IF ~book.ok
    THEN [status |-> "except", df |-> NoFrame, frame |-> NoFrame]
    ELSE LET Check(c) ==
                 IF c.exc # "none"
                 THEN [status |-> "except", df |-> NoFrame, frame |-> NoFrame]
                 ELSE IF has_required_columns(c.df)
                      THEN [status |-> "appended", df |-> c.df,
                            frame |-> select_required(c.df)]
                      ELSE [status |-> "rejected", df |-> c.df, frame |-> NoFrame]
         IN  Local(clean_column_names([columns |-> book.columns, rows |-> book.rows]),
                   Check)

\* lines 42-43, which are outside the try block: the unpacking of
\* content.split(',') raises ValueError unless there are exactly two parts,
\* and b64decode raises binascii.Error on a string that is not base64
decode_error(content) ==
    IF content.parts # 2 THEN "ValueError"
    ELSE IF ~content.b64 THEN "binascii.Error"
    ELSE "none"

\* as concat_rows, had line 57 returned the first accepted frame alone
concat_first_frame(frames) ==
    IF frames = <<>> THEN <<>> ELSE Head(frames).rows

\* pd.concat(data_frames, ignore_index=True), or the empty frame
RECURSIVE concat_rows(_)
concat_rows(frames) ==
    IF frames = <<>> THEN <<>>
    ELSE Head(frames).rows \o concat_rows(Tail(frames))

\* the for loop from payload i on, with the frames appended and the branches
\* taken so far
RECURSIVE process_from(_, _, _, _)
process_from(cs, i, data_frames, trace) ==
    IF i > Len(cs)
    THEN [exc |-> "none", steps |-> trace,
          df |-> [columns |-> [k \in 1..Len(REQUIRED_COLUMNS) |->
                                  StrCell(REQUIRED_COLUMNS[k])],
                  rows |-> concat_rows(data_frames)]]
    ELSE IF decode_error(cs[i]) # "none"
         THEN [exc |-> decode_error(cs[i]), steps |-> trace, df |-> NoFrame]
         ELSE LET Continue(f) ==
                      process_from(cs, i + 1,
                          IF f.status = "appended"
                          THEN Append(data_frames, f.frame) ELSE data_frames,
                          Append(trace, [status |-> f.status, df |-> f.df]))
              IN  Local(load_frame(cs[i].book), Continue)

process_uploaded_files(cs) == process_from(cs, 1, <<>>, <<>>)

(***************************************************************************)
(* update_dashboard.                                                       *)
(***************************************************************************)
\* pd.to_datetime(start_date): the picker's 'YYYY-MM-DD' is midnight of the day
to_datetime(day) == Timestamp(day, 0)

\* pd.to_datetime on one cell of the Date column (errors='raise', the
\* default): a datetime cell is kept and an empty cell becomes NaT.  Text that
\* is no date raises, see to_datetime_raises.
to_datetime_cell(c) == IF c.t = "datetime" THEN c ELSE NaT

\* Every text the model puts in a Date cell is text that is no date, and
\* pd.to_datetime raises on the first such value.
to_datetime_raises(rows) ==
    \E i \in 1..Len(rows) : rows[i][DateCol].t = "str"

\* data['Date'] = pd.to_datetime(data['Date'])
convert_dates(rows) ==
    [i \in 1..Len(rows) |->
        [k \in 1..Len(REQUIRED_COLUMNS) |->
            IF k = DateCol THEN to_datetime_cell(rows[i][k]) ELSE rows[i][k]]]

\* Timestamp <= Timestamp; a comparison with NaT is False
ts_le(a, b) ==
    /\ a.t = "datetime"
    /\ b.t = "datetime"
    /\ (a.n < b.n \/ (a.n = b.n /\ a.h <= b.h))

\* as date_mask, had line 197 compared with < at the end of the range
date_mask_open_end(d, start, end) ==
    /\ ts_le(to_datetime(start), d)
    /\ ts_le(d, to_datetime(end))
    /\ d # to_datetime(end)

\* (data['Date'] >= pd.to_datetime(start_date)) & (data['Date'] <= pd.to_datetime(end_date))
date_mask(d, start, end) ==
    ts_le(to_datetime(start), d) /\ ts_le(d, to_datetime(end))

\* as str_accessor_ok, had the empty frame of line 59 no text columns
str_accessor_needs_text(rows) ==
    \E i \in 1..Len(rows) : rows[i][FindingsCol].t = "str"

\* Series.str on a column whose dtype is not object raises AttributeError.
\* read_excel gives a column float64 when none of its cells is text, and the
\* empty frame of line 59 has object columns; filtering keeps the dtype.
str_accessor_ok(rows) ==
    rows = <<>> \/ \E i \in 1..Len(rows) : rows[i][FindingsCol].t = "str"

\* as str_contains, had line 209 left case=False out
str_contains_cased(c, pat) ==
    /\ c.t = "str"
    /\ \E i \in 1..(Len(c.s) - Len(pat) + 1) :
          SubSeq(c.s, i, i + Len(pat) - 1) = pat

\* one value of Series.str.contains(pat, case=False, na=False): a cell that is
\* not text gives NaN, which na=False turns into False
str_contains(c, pat) ==
    /\ c.t = "str"
    /\ LET text == str_lower(c.s)
           sub == str_lower(pat)
       IN  \E i \in 1..(Len(text) - Len(sub) + 1) :
               SubSeq(text, i, i + Len(sub) - 1) = sub

FoundMarker == <<"K", "e", "y", "w", "o", "r", "d", " ", "f", "o", "u", "n", "d">>

\* distinct values of column k, as Series.unique() gives them (NaN is one value)
unique(rows, k) == {rows[i][k] : i \in 1..Len(rows)}

\* as count_unique, had lines 203 and 206 counted the rows of the column
count_rows(rows, k) == Len(rows)

\* len(filtered_data[column].unique())
count_unique(rows, k) == Cardinality(unique(rows, k))

count_where(rows, k, v) == Cardinality({i \in 1..Len(rows) : rows[i][k] = v})

\* the Timestamps of S in ascending order (groupby sorts its keys)
RECURSIVE sorted_dates(_)
sorted_dates(S) ==
    IF S = {} THEN <<>>
    ELSE LET m == CHOOSE x \in S : \A y \in S : ts_le(x, y)
         IN  <<m>> \o sorted_dates(S \ {m})

\* filtered_data.groupby(['Date']).size(): one point per distinct date
group_by_date(rows) ==
    LET Points(ds) == [j \in 1..Len(ds) |-> <<ds[j], count_where(rows, DateCol, ds[j])>>]
    IN  Local(sorted_dates(unique(rows, DateCol)), Points)

\* value_counts() and groupby('Keyword').size(): one bar per keyword that is
\* not NaN, with its count (the order of the bars is left to the chart)
count_by_keyword(rows) ==
    { <<v, count_where(rows, KeywordCol, v)>> :
        v \in {x \in unique(rows, KeywordCol) : x.t # "nan"} }

Figure(points) == [drawn |-> TRUE, points |-> points]
Bars(bars) == [drawn |-> TRUE, bars |-> bars]
Table(records) == [set |-> TRUE, records |-> records]

TotalLabel == <<"T", "o", "t", "a", "l", " ", "F", "i", "n", "d", "i", "n", "g", "s", ":", " ">>
UniqueLabel == <<"U", "n", "i", "q", "u", "e", " ", "K", "e", "y", "w", "o", "r", "d", "s", ":", " ">>
UrlsLabel == <<"M", "o", "n", "i", "t", "o", "r", "e", "d", " ", "U", "R", "L", "s", ":", " ">>
FoundLabel == <<"F", "o", "u", "n", "d", " ", "K", "e", "y", "w", "o", "r", "d", "s", ":", " ">>

\* app.layout: the four cards hold their labels alone, the graphs have no
\* figure and the table has no data
Layout ==
    [total_findings |-> TotalLabel,
     unique_keywords |-> UniqueLabel,
     monitored_urls |-> UrlsLabel,
     found_keyword_count |-> FoundLabel,
     findings_over_time |-> [drawn |-> FALSE, points |-> <<>>],
     keyword_frequency |-> [drawn |-> FALSE, bars |-> {}],
     success_frequency |-> [drawn |-> FALSE, bars |-> {}],
     table_data |-> [set |-> FALSE, records |-> <<>>]]

\* lines 196-259, on the combined table with its dates converted
aggregate(rows, start, end) ==
    LET Keep(r) == date_mask(r[DateCol], start, end)
        Hit(r) == str_contains(r[FindingsCol], FoundMarker)
        Outputs(filtered_data) ==
            LET Found(found_keywords) ==
                    [total_findings |-> TotalLabel \o format_int(Len(filtered_data)),
                     unique_keywords |->
                         UniqueLabel \o format_int(count_unique(filtered_data, KeywordCol)),
                     monitored_urls |->
                         UrlsLabel \o format_int(count_unique(filtered_data, URLCol)),
                     found_keyword_count |->
                         FoundLabel \o format_int(Len(found_keywords)),
                     findings_over_time |-> Figure(group_by_date(filtered_data)),
                     keyword_frequency |-> Bars(count_by_keyword(filtered_data)),
                     success_frequency |-> Bars(count_by_keyword(found_keywords)),
                     table_data |-> Table(filtered_data)]
            IN  Local(SelectSeq(filtered_data, Hit), Found)
    IN  Local(SelectSeq(rows, Keep), Outputs)

\* update_dashboard(contents, start_date, end_date): what it raises, or the
\* eight values it returns
update_dashboard(c, start, end) ==
    IF c = None
    THEN [exc |-> "PreventUpdate", steps |-> <<>>, data |-> NoFrame, outputs |-> Layout]
    ELSE LET Rest(p) ==
                 IF p.exc # "none"
                 THEN [exc |-> p.exc, steps |-> p.steps, data |-> NoFrame,
                       outputs |-> Layout]
                 ELSE IF to_datetime_raises(p.df.rows)
                 THEN [exc |-> "ValueError", steps |-> p.steps, data |-> p.df,
                       outputs |-> Layout]
                 ELSE IF ~str_accessor_ok(p.df.rows)
                 THEN [exc |-> "AttributeError", steps |-> p.steps, data |-> p.df,
                       outputs |-> Layout]
                 ELSE [exc |-> "none", steps |-> p.steps, data |-> p.df,
                       outputs |-> aggregate(convert_dates(p.df.rows), start, end)]
         IN  Local(process_uploaded_files(c.files), Rest)

(***************************************************************************)
(* What the browser can upload.  A payload is the content string of one    *)
(* file: `parts` is the number of comma-separated parts of the string,     *)
(* `b64` whether its second part is valid base64, `book` the workbook that *)
(* pd.read_excel finds in the decoded bytes (ok = FALSE: read_excel        *)
(* raises).  A worksheet has at least one row, and the folded names of its *)
(* header cells are pairwise distinct.                                     *)
(***************************************************************************)
NoBook == [ok |-> FALSE, columns |-> <<>>, rows |-> <<>>]
Workbook(columns, rows) == [ok |-> TRUE, columns |-> columns, rows |-> rows]
Payload(book) == [parts |-> 2, b64 |-> TRUE, book |-> book]

NotExcel == Payload(NoBook)                                \* bytes that are no workbook
BadBase64 == [parts |-> 2, b64 |-> FALSE, book |-> NoBook]  \* 'data:x;base64,A'
NoComma == [parts |-> 1, b64 |-> TRUE, book |-> NoBook]     \* no ',' in the string
BrokenPayloads == {NotExcel, BadBase64, NoComma}

\* the value of field `field` in row i of a generated worksheet
FieldCell(field, i) ==
    CASE field = "keyword" -> StrCell(<<"k", Digits[i + 1]>>)
      [] field = "url" -> StrCell(<<"u", Digits[i + 1]>>)
      [] field = "findings" ->
            IF i % 2 = 1 THEN StrCell(FoundMarker) ELSE StrCell(<<"n", "o">>)
      [] field = "response" -> StrCell(<<"2", "0", "0">>)
      [] field = "time" -> StrCell(<<"0", "9", ":", "0", "0">>)
      [] field = "date" -> Timestamp(((i - 1) % MaxDay) + 1, 0)
      [] OTHER -> StrCell(<<"x", Digits[i + 1]>>)

\* header rows: <<header cell, field held by the column>>
HdrLower ==
    << <<StrCell(<<"k", "e", "y", "w", "o", "r", "d">>), "keyword">>,
       <<StrCell(<<"l", "i", "n", "k">>), "url">>,
       <<StrCell(<<"f", "i", "n", "d", "i", "n", "g", "s">>), "findings">>,
       <<StrCell(<<"l", "i", "n", "k", " ", "r", "e", "s", "p", "o", "n", "s", "e">>),
         "response">>,
       <<StrCell(<<"t", "i", "m", "e">>), "time">>,
       <<StrCell(<<"d", "a", "t", "e">>), "date">> >>

\* other case, padding, column order, and one more column
HdrMixed ==
    << <<StrCell(<<" ", "D", "a", "t", "e">>), "date">>,
       <<StrCell(<<"L", "I", "N", "K">>), "url">>,
       <<StrCell(<<" ", "K", "e", "y", "w", "o", "r", "d", " ">>), "keyword">>,
       <<StrCell(<<"n", "o", "t", "e", "s">>), "notes">>,
       <<StrCell(<<"T", "I", "M", "E", "\t">>), "time">>,
       <<StrCell(<<"F", "i", "n", "d", "i", "n", "g", "s">>), "findings">>,
       <<StrCell(<<"L", "i", "n", "k", " ", "R", "e", "s", "p", "o", "n", "s", "e">>),
         "response">> >>

\* the canonical names themselves, with " Link " for the URL column
HdrTitle ==
    << <<StrCell(<<"K", "e", "y", "w", "o", "r", "d">>), "keyword">>,
       <<StrCell(<<" ", "L", "i", "n", "k", " ">>), "url">>,
       <<StrCell(<<"F", "i", "n", "d", "i", "n", "g", "s">>), "findings">>,
       <<StrCell(<<"L", "i", "n", "k", " ", "R", "e", "s", "p", "o", "n", "s", "e">>),
         "response">>,
       <<StrCell(<<"T", "i", "m", "e">>), "time">>,
       <<StrCell(<<"D", "a", "t", "e">>), "date">> >>

WithoutColumn(hdr, field) ==
    LET Other(c) == c[2] # field IN SelectSeq(hdr, Other)

ReplaceHeader(hdr, field, cell) ==
    [j \in 1..Len(hdr) |-> IF hdr[j][2] = field THEN <<cell, field>> ELSE hdr[j]]

HeaderRows ==
    { HdrLower, HdrMixed, HdrTitle,
      WithoutColumn(HdrLower, "time"),
      WithoutColumn(HdrMixed, "findings"),
      ReplaceHeader(HdrLower, "url", StrCell(<<"U", "R", "L">>)),
      ReplaceHeader(HdrMixed, "url", StrCell(<<"u", "r", "l">>)),
      <<<<StrCell(<<"U", "r", "l">>), "source">>>> \o HdrLower,
      ReplaceHeader(HdrLower, "response",
          StrCell(<<"l", "i", "n", "k", " ", " ", "r", "e", "s", "p", "o", "n", "s", "e">>)),
      Append(HdrLower, <<IntCell(2021), "year">>) }

Worksheet(hdr, n) ==
    Workbook([j \in 1..Len(hdr) |-> hdr[j][1]],
             [i \in 1..n |-> [j \in 1..Len(hdr) |-> FieldCell(hdr[j][2], i)]])

IngestPayloads ==
    BrokenPayloads
    \cup {Payload(Worksheet(hdr, n)) : hdr \in HeaderRows, n \in {1, MaxRows}}

SeqsUpTo(S, n) == UNION {[1..m -> S] : m \in 0..n}

IngestPool == SeqsUpTo(IngestPayloads, MaxFiles)

(***************************************************************************)
(* Worksheets with the six columns and rows that differ in keyword,        *)
(* findings and date.                                                      *)
(***************************************************************************)
Alpha == StrCell(<<"a", "l", "p", "h", "a">>)
Beta == StrCell(<<"b", "e", "t", "a">>)
FoundUpper == StrCell(<<"K", "E", "Y", "W", "O", "R", "D", " ", "F", "O", "U", "N", "D",
                        ":", " ", "x", "y", "z">>)
FoundInside == StrCell(<<"N", "o", " ", "k", "e", "y", "w", "o", "r", "d", " ", "f", "o",
                         "u", "n", "d", " ", "h", "e", "r", "e">>)
Nothing == StrCell(<<"n", "o", "t", "h", "i", "n", "g">>)
NotADate == StrCell(<<"t", "b", "d">>)

\* a row under HdrLower: keyword, link, findings, link response, time, date
Row(keyword, findings, date) ==
    <<keyword, FieldCell("url", IF keyword = Alpha THEN 1 ELSE 2), findings,
      FieldCell("response", 1), FieldCell("time", 1), date>>

RowPool ==
    {Row(Alpha, FoundUpper, Timestamp(d, 0)) : d \in Days}
    \cup {Row(Beta, Nothing, Timestamp(d, 0)) : d \in Days}
    \cup {Row(Alpha, NaN, Timestamp(d, 1)) : d \in Days}
    \cup {Row(NaN, FoundInside, NaN), Row(Beta, Nothing, NotADate)}

LowerColumns == [j \in 1..Len(HdrLower) |-> HdrLower[j][1]]

AggPool ==
    { <<Payload(Workbook(LowerColumns, rows))>> :
        rows \in SeqsUpTo(RowPool, MaxRows) \ {<<>>} }

(***************************************************************************)
(* The uploads of a session.                                               *)
(***************************************************************************)
SessionPayloads ==
    { Payload(Workbook(LowerColumns,
          <<Row(Alpha, FoundUpper, Timestamp(1, 0)),
            Row(Beta, Nothing, Timestamp(MaxDay, 0))>>)),
      Payload(Workbook(LowerColumns, <<Row(Beta, FoundUpper, Timestamp(MaxDay, 0))>>)),
      Payload(Workbook(LowerColumns, <<Row(Beta, Nothing, NotADate)>>)),
      Payload(Worksheet(WithoutColumn(HdrLower, "time"), 1)),
      NotExcel }

SessionPool == SeqsUpTo(SessionPayloads, MaxFiles)

(***************************************************************************)
(* The state machine.                                                      *)
(***************************************************************************)
\* Init: the page as app.layout builds it.  The picker starts at its first
\* day and ends today; nothing is uploaded and the callback has not run.
Init ==
    /\ contents = None
    /\ start_date = 1
    /\ end_date = MaxDay
    /\ outcome = "not_called"
    /\ steps = <<>>
    /\ data = NoFrame
    /\ shown = Layout

\* One invocation of the callback.  Dash writes the returned values to the
\* eight outputs; when the callback raises (PreventUpdate or an error) the
\* outputs stay as they are.
Invoke(c, start, end) ==
    \E r \in {update_dashboard(c, start, end)} :
        /\ outcome' = IF r.exc = "none" THEN "returned" ELSE r.exc
        /\ steps' = r.steps
        /\ data' = r.data
        /\ shown' = IF r.exc = "none" THEN r.outputs ELSE shown

\* Dash fires the callback once when the page loads
PageLoad ==
    /\ outcome = "not_called"
    /\ Invoke(contents, start_date, end_date)
    /\ UNCHANGED <<contents, start_date, end_date>>

\* an upload event: the component's contents become the uploaded files
Upload(pool) ==
    /\ outcome # "not_called"
    /\ \E files \in pool :
          /\ contents' = Uploaded(files)
          /\ Invoke(Uploaded(files), start_date, end_date)
    /\ UNCHANGED <<start_date, end_date>>

SetStartDate ==
    /\ outcome # "not_called"
    /\ \E d \in Days :
          /\ d # start_date
          /\ d <= end_date
          /\ start_date' = d
          /\ Invoke(contents, d, end_date)
    /\ UNCHANGED <<contents, end_date>>

SetEndDate ==
    /\ outcome # "not_called"
    /\ \E d \in Days :
          /\ d # end_date
          /\ start_date <= d
          /\ end_date' = d
          /\ Invoke(contents, start_date, d)
    /\ UNCHANGED <<contents, start_date>>

UploadFiles == Upload(SessionPool)

Next == PageLoad \/ UploadFiles \/ SetStartDate \/ SetEndDate

Spec == Init /\ [][Next]_vars

\* one upload of workbooks of every shape, then nothing
FirstUploadIngest == contents = None /\ Upload(IngestPool)

NextIngest == PageLoad \/ FirstUploadIngest

SpecIngest == Init /\ [][NextIngest]_vars

\* one upload of one well-formed workbook, then date changes
FirstUploadAgg == contents = None /\ Upload(AggPool)

NextAgg == PageLoad \/ FirstUploadAgg \/ SetStartDate \/ SetEndDate

SpecAgg == Init /\ [][NextAgg]_vars

(***************************************************************************)
(* What the documentation says, stated without the operators above.        *)
(***************************************************************************)
\* the six names a header may carry, in the order of REQUIRED_COLUMNS
FoldedNames ==
    << <<"k", "e", "y", "w", "o", "r", "d">>,
       <<"l", "i", "n", "k">>,
       <<"f", "i", "n", "d", "i", "n", "g", "s">>,
       <<"l", "i", "n", "k", " ", "r", "e", "s", "p", "o", "n", "s", "e">>,
       <<"t", "i", "m", "e">>,
       <<"d", "a", "t", "e">> >>

\* the upper-case letter of every lower-case letter
UpperOf ==
    [l \in {LowerCase[i] : i \in 1..Len(LowerCase)} |->
        UpperCase[CHOOSE i \in 1..Len(LowerCase) : LowerCase[i] = l]]

\* character c is the lower-case character l or its upper-case form
SameLetter(c, l) == c = l \/ (l \in DOMAIN UpperOf /\ UpperOf[l] = c)

\* text h is `name` written in any letter case, between any whitespace
NamesColumn(h, name) ==
    \E a \in 0..(Len(h) - Len(name)) :
        /\ \A k \in 1..a : h[k] \in Whitespace
        /\ \A k \in 1..Len(name) : SameLetter(h[a + k], name[k])
        /\ \A k \in (a + Len(name) + 1)..Len(h) : h[k] \in Whitespace

AllText(book) == \A j \in 1..Len(book.columns) : book.columns[j].t = "str"

HasColumn(book, name) ==
    \E j \in 1..Len(book.columns) :
        book.columns[j].t = "str" /\ NamesColumn(book.columns[j].s, name)

\* the workbook is a table whose header names all six columns
CompleteBook(book) ==
    /\ book.ok
    /\ AllText(book)
    /\ \A k \in 1..Len(FoldedNames) : HasColumn(book, FoldedNames[k])

\* the rows of a complete table, its six columns in canonical order
CanonicalRows(book) ==
    LET Rows(at) ==
            [i \in 1..Len(book.rows) |->
                [k \in 1..Len(FoldedNames) |-> book.rows[i][at[k]]]]
    IN  Local([k \in 1..Len(FoldedNames) |->
                  CHOOSE j \in 1..Len(book.columns) :
                      NamesColumn(book.columns[j].s, FoldedNames[k])], Rows)

\* the rows of the complete tables among the payloads, in upload order
RECURSIVE AcceptedRows(_)
AcceptedRows(files) ==
    IF files = <<>> THEN <<>>
    ELSE (IF CompleteBook(Head(files).book)
          THEN CanonicalRows(Head(files).book) ELSE <<>>)
         \o AcceptedRows(Tail(files))

\* process_uploaded_files returned a combined table in the last invocation
Combined == data.columns # <<>>

Returned == outcome = "returned"

\* a date within [start_date, end_date], both days at midnight
WithinRange(d) ==
    /\ d.t = "datetime"
    /\ start_date <= d.n
    /\ (d.n < end_date \/ (d.n = end_date /\ d.h = 0))

RowWithinRange(r) == WithinRange(r[DateCol])

FoldedMarker == <<"k", "e", "y", "w", "o", "r", "d", " ", "f", "o", "u", "n", "d">>

\* text of a Findings cell holding "keyword found" in any letter case
PositiveMatch(c) ==
    /\ c.t = "str"
    /\ \E a \in 0..(Len(c.s) - Len(FoldedMarker)) :
          \A k \in 1..Len(FoldedMarker) : SameLetter(c.s[a + k], FoldedMarker[k])

\* the outputs of a dashboard without rows
ZeroOutputs ==
    [total_findings |-> TotalLabel \o <<"0">>,
     unique_keywords |-> UniqueLabel \o <<"0">>,
     monitored_urls |-> UrlsLabel \o <<"0">>,
     found_keyword_count |-> FoundLabel \o <<"0">>,
     findings_over_time |-> [drawn |-> TRUE, points |-> <<>>],
     keyword_frequency |-> [drawn |-> TRUE, bars |-> {}],
     success_frequency |-> [drawn |-> TRUE, bars |-> {}],
     table_data |-> [set |-> TRUE, records |-> <<>>]]

(***************************************************************************)
(* C1: whenever process_uploaded_files returns its combined table, the     *)
(* table is the rows of the uploaded tables that have all six required     *)
(* columns after normalization, each such table with all of its rows, and  *)
(* no row of any other table: acceptance is per whole table.               *)
(***************************************************************************)
C1_WholeTableAcceptance ==
    Combined => data.rows = AcceptedRows(contents.files)

\* a complete table and a table without 'time' were uploaded together, and
\* the combined table has the rows of the complete one alone
C1_Witness ==
    /\ Combined
    /\ Len(contents.files) = 2
    /\ CompleteBook(contents.files[1].book)
    /\ Len(contents.files[1].book.rows) = MaxRows
    /\ contents.files[2].book.ok
    /\ ~HasColumn(contents.files[2].book, FoldedNames[5])
    /\ Len(data.rows) = MaxRows

(***************************************************************************)
(* C4: for every list of payloads, a payload that cannot be decoded or     *)
(* parsed is dropped without raising, and the other payloads of the list   *)
(* still contribute their rows.                                            *)
(***************************************************************************)
C4_BrokenPayloadDropped ==
    contents.uploaded =>
        /\ Combined
        /\ data.rows = AcceptedRows(contents.files)

(***************************************************************************)
(* C5: every header that is keyword, link, findings, link response, time   *)
(* or date after trimming whitespace and lowercasing is renamed to the     *)
(* canonical name, and the rows are unchanged.                             *)
(***************************************************************************)
C5_HeadersFolded ==
    \A i \in 1..Len(steps) :
        LET book == contents.files[i].book
        IN  (book.ok /\ AllText(book)) =>
               /\ steps[i].status # "except"
               /\ steps[i].df.rows = book.rows
               /\ Len(steps[i].df.columns) = Len(book.columns)
               /\ \A j \in 1..Len(book.columns) : \A k \in 1..Len(FoldedNames) :
                     NamesColumn(book.columns[j].s, FoldedNames[k]) =>
                         steps[i].df.columns[j].s = REQUIRED_COLUMNS[k]

\* a table headed " Link " and one headed "LINK" went through
\* clean_column_names and both columns are now URL
C5_Witness ==
    \E i1, i2 \in 1..Len(steps) : \E j1, j2 \in 1..7 :
        /\ j1 <= Len(contents.files[i1].book.columns)
        /\ j2 <= Len(contents.files[i2].book.columns)
        /\ contents.files[i1].book.columns[j1].s = <<" ", "L", "i", "n", "k", " ">>
        /\ contents.files[i2].book.columns[j2].s = <<"L", "I", "N", "K">>
        /\ steps[i1].df.columns[j1].s = <<"U", "R", "L">>
        /\ steps[i2].df.columns[j2].s = <<"U", "R", "L">>

(***************************************************************************)
(* C10: a table is accepted only if one of its headers is 'link' in some   *)
(* letter case; a table whose source column is headed URL, in any letter   *)
(* case, and that has no 'link' header is rejected.                        *)
(***************************************************************************)
C10_OnlyLinkSuppliesURL ==
    \A i \in 1..Len(steps) :
        LET book == contents.files[i].book
        IN  /\ steps[i].status = "appended" => HasColumn(book, FoldedNames[2])
            /\ (/\ book.ok
                /\ AllText(book)
                /\ HasColumn(book, <<"u", "r", "l">>)
                /\ ~HasColumn(book, FoldedNames[2])) => steps[i].status = "rejected"

\* a table headed URL with the other five headers in place was rejected and
\* the combined table is empty
C10_Witness ==
    /\ Combined
    /\ Len(steps) = 1
    /\ steps[1].status = "rejected"
    /\ \E j \in 1..Len(contents.files[1].book.columns) :
          contents.files[1].book.columns[j].s = <<"U", "R", "L">>
    /\ \A k \in {1, 3, 4, 5, 6} : HasColumn(contents.files[1].book, FoldedNames[k])
    /\ data.rows = <<>>

(***************************************************************************)
(* C2, as claimed: an invocation with no uploaded contents (None or an     *)
(* empty list) or with no accepted table returns all-zero counters, empty  *)
(* series and an empty table, and raises nothing.                          *)
(***************************************************************************)
NoAcceptedTable == \A i \in 1..Len(contents.files) : ~CompleteBook(contents.files[i].book)

Listed == shown.table_data.records

Positives == {i \in 1..Len(Listed) : PositiveMatch(Listed[i][FindingsCol])}

ListedKeywords == {Listed[i][KeywordCol] : i \in 1..Len(Listed)}

\* the uploaded files with row i of file f once more at the end of its sheet
WithRowAgain(files, f, i) ==
    [files EXCEPT ![f].book.rows = Append(@, @[i])]

(***************************************************************************)
(* C3, as claimed: a row whose Date cannot be parsed is left out of the    *)
(* filtered table and the callback still returns the metrics of the other  *)
(* rows; it never makes the invocation fail.                               *)
(***************************************************************************)
HasUnparseableDate ==
    \E i \in 1..Len(AcceptedRows(contents.files)) :
        AcceptedRows(contents.files)[i][DateCol].t = "str"

C3_UnparseableDateExcluded ==
    (contents.uploaded /\ HasUnparseableDate) =>
        /\ Returned
        /\ Listed = SelectSeq(AcceptedRows(contents.files), RowWithinRange)

(***************************************************************************)
(* C6: the filter is inclusive at both bounds.  A row of the combined      *)
(* table is in the filtered table iff start_date <= Date <= end_date, rows *)
(* dated exactly start_date or end_date included; total_findings is the    *)
(* number of these rows and findings_over_time has one point per distinct  *)
(* date among them.                                                        *)
(***************************************************************************)
C6_InclusiveDateFilter ==
    Returned =>
        LET expected == SelectSeq(data.rows, RowWithinRange)
        IN  /\ Listed = expected
            /\ shown.total_findings = TotalLabel \o format_int(Len(expected))
            /\ Len(shown.findings_over_time.points) =
                  Cardinality({expected[i][DateCol] : i \in 1..Len(expected)})

\* one row dated exactly start_date and one dated exactly end_date, a later
\* day, are both listed and make two points
C6_Witness ==
    /\ Returned
    /\ start_date < end_date
    /\ Len(data.rows) = 2
    /\ data.rows[1][DateCol] = Timestamp(start_date, 0)
    /\ data.rows[2][DateCol] = Timestamp(end_date, 0)
    /\ Len(Listed) = 2
    /\ shown.total_findings = TotalLabel \o <<"2">>
    /\ Len(shown.findings_over_time.points) = 2

C9_UniqueKeywords ==
    Returned =>
        /\ shown.unique_keywords = UniqueLabel \o format_int(Cardinality(ListedKeywords))
        /\ shown.total_findings = TotalLabel \o format_int(Len(Listed))
        /\ Cardinality(ListedKeywords) <= Len(Listed)
        /\ \A f \in 1..Len(contents.files) :
              \A i \in 1..Len(contents.files[f].book.rows) :
                  LET again == update_dashboard(
                                   Uploaded(WithRowAgain(contents.files, f, i)),
                                   start_date, end_date)
                  IN  /\ again.exc = "none"
                      /\ again.outputs.unique_keywords = shown.unique_keywords

\* two rows with the same keyword are listed and unique_keywords is 1
C9_Witness ==
    /\ Returned
    /\ Len(Listed) = 2
    /\ Listed[1][KeywordCol] = Listed[2][KeywordCol]
    /\ shown.unique_keywords = UniqueLabel \o <<"1">>
    /\ shown.total_findings = TotalLabel \o <<"2">>

(***************************************************************************)
(* C7: after any sequence of uploads and date changes the page shows the   *)
(* aggregation of the currently held upload alone under the current date   *)
(* range.                                                                  *)
(***************************************************************************)
C7_ShownIsCurrent ==
    contents.uploaded =>
        LET current == SelectSeq(AcceptedRows(contents.files), RowWithinRange)
        IN  /\ Listed = current
            /\ shown.total_findings = TotalLabel \o format_int(Len(current))

====
